---- MODULE Spec2Model ----
(***************************************************************************)
(* A model of the rusty_cmd command interpreter (src/src/cmd.rs,           *)
(* src/src/command_handler.rs, src/src/handlers.rs): the registry of       *)
(* named handlers kept by Cmd, and the read-parse-dispatch loop of         *)
(* Cmd::run.                                                               *)
(*                                                                         *)
(* Text is modelled as a sequence of one-character strings, so that        *)
(* trimming, splitting and formatting are computed character by character  *)
(* as the Rust code computes them.                                         *)
(***************************************************************************)
EXTENDS Integers, Sequences, FiniteSets

VARIABLES
    handles,   \* Cmd.handles: the registry, a function from names to handlers
    stdout,    \* the bytes the output sink (Cmd.stdout) has accepted so far
    stdin,     \* the input source (Cmd.stdin): "open" or "eof"
    inputs,    \* the String `inputs` of run: the raw line read in this iteration
    pc,        \* where the caller / run is: idle, prompt, flush, read, dispatch, done, err, panic
    ret,       \* the value returned by the last call of add_cmd / add_cmd_fn / run
    first,     \* for each name add_cmd was called with, the handler of the first such call
    last,      \* the arguments of the latest add_cmd / add_cmd_fn call
    nadds,     \* the number of add_cmd / add_cmd_fn calls made so far
    parsed,    \* the (command, args) of run: what parse_cmd and split_args made of the latest line
    trace,     \* every operation on the sink and the source and every handler call, in order
    \* the same fields and bookkeeping for a second Cmd value
    handles2, stdout2, stdin2, inputs2, pc2, ret2, first2, last2, nadds2, parsed2, trace2

vars == <<handles, stdout, stdin, inputs, pc, ret, first, last, nadds, parsed, trace>>

vars2 == <<handles2, stdout2, stdin2, inputs2, pc2, ret2, first2, last2, nadds2, parsed2, trace2>>

(***************************************************************************)
(* Bounds of the model.                                                    *)
(***************************************************************************)
\* at most this many add_cmd / add_cmd_fn calls are made
MaxAdds == 2
\* run writes at most this many prompts (the loop itself is unbounded)
MaxIter == 3
\* the tokenizer is applied to every line of at most this many characters
MaxLineLen == 4

(***************************************************************************)
(* Text helpers.                                                           *)
(***************************************************************************)
\* char::is_whitespace, restricted to the characters of the model
IsWhitespace(c) == c \in {" ", "\t", "\n", "\r"}

RECURSIVE TrimStart(_)
TrimStart(s) ==
    IF s = <<>> THEN <<>>
    ELSE IF IsWhitespace(Head(s)) THEN TrimStart(Tail(s)) ELSE s

RECURSIVE TrimEnd(_)
TrimEnd(s) ==
    IF s = <<>> THEN <<>>
    ELSE IF IsWhitespace(s[Len(s)]) THEN TrimEnd(SubSeq(s, 1, Len(s) - 1)) ELSE s

\* str::trim
Trim(s) == TrimEnd(TrimStart(s))

\* str::find(c).unwrap_or(len): the 0-based index of the first c in s, or Len(s)
RECURSIVE FindOrLen(_, _)
FindOrLen(s, c) ==
    IF s = <<>> THEN 0
    ELSE IF Head(s) = c THEN 0 ELSE 1 + FindOrLen(Tail(s), c)

\* the first maximal run of non-whitespace characters at the start of s
RECURSIVE TakeWord(_)
TakeWord(s) ==
    IF s = <<>> \/ IsWhitespace(Head(s)) THEN <<>>
    ELSE <<Head(s)>> \o TakeWord(Tail(s))

\* str::split_whitespace, collected
RECURSIVE split_whitespace(_)
split_whitespace(s) ==
    LET t == TrimStart(s) IN
    IF t = <<>> THEN <<>>
    ELSE LET w == TakeWord(t) IN
         <<w>> \o split_whitespace(SubSeq(t, Len(w) + 1, Len(t)))

(***************************************************************************)
(* The literals of the program.                                            *)
(***************************************************************************)
\* "(cmd) ", the prompt of run
Prompt == <<"(", "c", "m", "d", ")", " ">>

\* "Warning: Command with handle " and " already exists.", around the name
WarningHead == <<"W", "a", "r", "n", "i", "n", "g", ":", " ", "C", "o", "m", "m", "a", "n", "d", " ", "w", "i", "t", "h", " ", "h", "a", "n", "d", "l", "e", " ">>
WarningTail == <<" ", "a", "l", "r", "e", "a", "d", "y", " ", "e", "x", "i", "s", "t", "s", ".">>

\* (mutant of WarningText) the warning written with writeln!, ending in a line end
WarningText_newline(name) == WarningHead \o name \o WarningTail \o <<"\n">>

\* format!("Warning: Command with handle {} already exists.", name)
WarningText(name) == WarningHead \o name \o WarningTail

\* "No command " before the command; writeln! ends the line with "\n"
NoCommandHead == <<"N", "o", " ", "c", "o", "m", "m", "a", "n", "d", " ">>

\* (mutant of NoCommandText) the diagnostic written with write!, without the line end
NoCommandText_noeol(command) == NoCommandHead \o command

\* format!("No command {}\n", command)
NoCommandText(command) == NoCommandHead \o command \o <<"\n">>

\* the errors of the failing sinks and sources of the tests
WriteErr == "failed on write"
FlushErr == "failed on flush"
ReadErr == "failed on read"

(***************************************************************************)
(* The names, handlers and input lines the model draws from.               *)
(***************************************************************************)
greet == <<"g", "r", "e", "e", "t">>
quit == <<"q", "u", "i", "t">>

\* the names handlers are registered under
Names == {greet, quit}

\* Greeting (the tests' handler), Quit (handlers.rs), and the closure the
\* example registers with add_cmd_fn
Handlers == {"Greeting", "Quit", "HelloFn"}

\* the handlers that are closures: what add_cmd_fn accepts
FnHandlers == {"HelloFn"}

\* (mutant of HandlerText) Quit writes a farewell before it returns
HandlerText_farewell(h, args) ==
    CASE h = "Greeting" -> <<"H", "e", "l", "l", "o", " ", "t", "h", "e", "r", "e", "!">>
      [] h = "Quit" -> <<"b", "y", "e">>
      [] h = "HelloFn" -> <<"h", "e", "l", "l", "o", "!", "\n">>

\* what a handler writes to the sink it is given
HandlerText(h, args) ==
    CASE h = "Greeting" -> <<"H", "e", "l", "l", "o", " ", "t", "h", "e", "r", "e", "!">>
      [] h = "Quit" -> <<>>
      [] h = "HelloFn" -> <<"h", "e", "l", "l", "o", "!", "\n">>

\* the CommandResult a handler returns
HandlerSignal(h, args) ==
    CASE h = "Greeting" -> "Continue"
      [] h = "Quit" -> "Break"
      [] h = "HelloFn" -> "Continue"

\* the raw lines read_line may deliver, each with its line end
Lines == {
    <<"g", "r", "e", "e", "t", "\n">>,
    <<"q", "u", "i", "t", "\n">>,
    <<"n", "o", "n", "\n">>,
    <<" ", "\n">> }

(***************************************************************************)
(* The tokenizer.                                                          *)
(***************************************************************************)
\* (mutant of parse_cmd) the line is not trimmed before the first ' ' is looked for
parse_cmd_notrim(line) ==
    LET first_space == FindOrLen(line, " ")
        command == SubSeq(line, 1, first_space)
        args == Trim(SubSeq(line, Len(command) + 1, Len(line)))
    IN  <<command, args>>

\* parse_cmd: the command up to the first ' ' of the trimmed line, and the
\* trimmed rest
parse_cmd(line) ==
    LET l == Trim(line)
        first_space == FindOrLen(l, " ")
        command == SubSeq(l, 1, first_space)
        args == Trim(SubSeq(l, Len(command) + 1, Len(l)))
    IN  <<command, args>>

\* (mutant of split_args) the last piece is left out
split_args_droplast(args) ==
    LET parts == split_whitespace(args)
    IN  [i \in 1..(Len(parts) - 1) |-> Trim(parts[i])]

\* split_args: split_whitespace, each piece trimmed
split_args(args) ==
    LET parts == split_whitespace(args)
    IN  [i \in 1..Len(parts) |-> Trim(parts[i])]

(***************************************************************************)
(* The output sink, the input source and the log of what is done to them.  *)
(***************************************************************************)
\* one entry of trace; the fields an operation does not use hold a filler
Event(op, data, n, err, h, args, sig) ==
    [op |-> op, data |-> data, n |-> n, err |-> err, h |-> h, args |-> args, sig |-> sig]

\* write!(sink, data): the sink accepted the first n bytes; err is "none" or the error
WriteEv(data, o) == Event("write", data, o.n, o.err, "-", <<>>, "-")
\* sink.flush()
FlushEv(err) == Event("flush", <<>>, 0, err, "-", <<>>, "-")
\* source.read_line(&mut inputs): data is the line delivered
ReadEv(data, err) == Event("read", data, Len(data), err, "-", <<>>, "-")
\* run is entered
RunEv == Event("run", <<>>, 0, "none", "-", <<>>, "-")
\* handler.execute(sink, args) is entered
ExecEv(h, args) == Event("exec", <<>>, 0, "none", h, args, "-")
\* handler.execute returns sig
ReturnEv(h, sig) == Event("return", <<>>, 0, "none", h, <<>>, sig)

\* the numbers of bytes a sink may have accepted of a write that fails
PartialWrites == {0, 1}

\* What a sink may do with write!(sink, data): accept all of it, or fail after
\* accepting a strict prefix (write_all stops at the first failing write).
WriteOutcomes(data) ==
    {[n |-> Len(data), err |-> "none"]}
    \cup {[n |-> k, err |-> WriteErr] : k \in {j \in PartialWrites : j < Len(data)}}

\* What a sink may do with flush()
FlushOutcomes == {"none", FlushErr}

\* What the source may do with read_line: fail, deliver a line, or report end
\* of input (Ok(0), nothing appended); after end of input no line follows.
ReadOutcomes(src, L) ==
    {[line |-> <<>>, err |-> ReadErr, src |-> src]}
    \cup {[line |-> <<>>, err |-> "none", src |-> "eof"]}
    \cup (IF src = "open"
          THEN {[line |-> l, err |-> "none", src |-> "open"] : l \in L}
          ELSE {})

\* the bytes of data the sink holds after outcome o
Accepted(data, o) == SubSeq(data, 1, o.n)

\* the values a call returns: Ok(()) and Err(e)
Ok(call) == [call |-> call, ok |-> TRUE, err |-> "none"]
Err(call, e) == [call |-> call, ok |-> FALSE, err |-> e]
NoRet == [call |-> "none", ok |-> TRUE, err |-> "none"]

\* (mutant of Propagate) the error of the write is dropped
Propagate_swallow(call, err) == Ok(call)

\* `?` on the result of a write, flush or read: Ok goes on, Err(e) is returned
Propagate(call, err) == IF err = "none" THEN Ok(call) ELSE Err(call, err)

\* the number of entries of t that satisfy op = o
CountOp(t, o) == Cardinality({i \in 1..Len(t) : t[i].op = o})

\* the iterations run has begun: each begins with the write of the prompt
CountPrompts(t) ==
    Cardinality({i \in 1..Len(t) : t[i].op = "write" /\ t[i].data = Prompt})

(***************************************************************************)
(* The registry.                                                           *)
(***************************************************************************)
\* HashMap::insert
Insert(h, name, handler) ==
    [k \in DOMAIN h \cup {name} |-> IF k = name THEN handler ELSE h[k]]

\* (mutant of get_cmd) the lookup finds nothing
get_cmd_miss(h, key) == "None"

\* (mutant of get_cmd) the lookup takes a key that starts with, or is the
\* start of, a registered name for that name
get_cmd_prefix(h, key) ==
    LET near == {k \in DOMAIN h :
                    \/ Len(k) <= Len(key) /\ SubSeq(key, 1, Len(k)) = k
                    \/ Len(key) <= Len(k) /\ SubSeq(k, 1, Len(key)) = key}
    IN  IF near = {} THEN "None" ELSE h[CHOOSE k \in near : TRUE]

\* HashMap::get, as get_cmd and run use it: the handler, or "None"
get_cmd(h, key) == IF key \in DOMAIN h THEN h[key] ELSE "None"

\* (mutant of add_cmd_handles) the handler is inserted whether or not the name is used
add_cmd_handles_overwrite(h, name, handler) == Insert(h, name, handler)

\* the registry add_cmd leaves: unchanged for a used name, else with the handler inserted
add_cmd_handles(h, name, handler) ==
    IF get_cmd(h, name) # "None" THEN h ELSE Insert(h, name, handler)

\* the texts add_cmd writes to the sink: the warning for a used name, else none
add_cmd_writes(h, name) ==
    IF get_cmd(h, name) # "None" THEN <<WarningText(name)>> ELSE <<>>

\* add_cmd(name, handler)
add_cmd(name, handler) ==
    /\ pc = "idle"
    /\ nadds < MaxAdds
    /\ nadds' = nadds + 1
    /\ last' = [name |-> name, handler |-> handler]
    /\ first' = IF name \in DOMAIN first
                THEN first
                ELSE [k \in DOMAIN first \cup {name} |-> IF k = name THEN handler ELSE first[k]]
    /\ handles' = add_cmd_handles(handles, name, handler)
    /\ LET w == add_cmd_writes(handles, name) IN
       IF w = <<>>
       THEN /\ ret' = Ok("add_cmd")
            /\ UNCHANGED <<stdout, trace>>
       ELSE \E o \in WriteOutcomes(w[1]) :
            /\ stdout' = stdout \o Accepted(w[1], o)
            /\ trace' = Append(trace, WriteEv(w[1], o))
            /\ ret' = Propagate("add_cmd", o.err)
    /\ UNCHANGED <<stdin, inputs, pc, parsed>>

\* (mutant of add_cmd_fn) the closure is inserted at once: a used name is
\* bound again and no warning is written
add_cmd_fn_overwrite(name, handler) ==
    /\ handler \in FnHandlers
    /\ pc = "idle"
    /\ nadds < MaxAdds
    /\ nadds' = nadds + 1
    /\ last' = [name |-> name, handler |-> handler]
    /\ first' = IF name \in DOMAIN first THEN first ELSE Insert(first, name, handler)
    /\ handles' = Insert(handles, name, handler)
    /\ ret' = Ok("add_cmd")
    /\ UNCHANGED <<stdout, trace, stdin, inputs, pc, parsed>>

\* add_cmd_fn(name, handler): the closure is handed to add_cmd
add_cmd_fn(name, handler) ==
    /\ handler \in FnHandlers
    /\ add_cmd(name, handler)

(***************************************************************************)
(* run, one step of its loop at a time.                                    *)
(***************************************************************************)
\* run is called
RunCall ==
    /\ pc = "idle"
    /\ pc' = "prompt"
    /\ ret' = NoRet
    /\ trace' = Append(trace, RunEv)
    /\ UNCHANGED <<handles, stdout, stdin, inputs, first, last, nadds, parsed>>

\* write!(self.stdout, "(cmd) ")?
RunPrompt ==
    /\ pc = "prompt"
    /\ CountPrompts(trace) < MaxIter
    /\ \E o \in WriteOutcomes(Prompt) :
       /\ stdout' = stdout \o Accepted(Prompt, o)
       /\ trace' = Append(trace, WriteEv(Prompt, o))
       /\ pc' = IF o.err = "none" THEN "flush" ELSE "err"
       /\ ret' = IF o.err = "none" THEN ret ELSE Err("run", o.err)
    /\ UNCHANGED <<handles, stdin, inputs, first, last, nadds, parsed>>

\* (mutant of RunFlush) the flush is left out
RunFlush_skip ==
    /\ pc = "flush"
    /\ pc' = "read"
    /\ UNCHANGED <<handles, stdout, stdin, inputs, first, last, nadds, parsed, trace, ret>>

\* (mutant of RunFlush) the result of flush() is dropped and the line is read
RunFlush_ignore ==
    /\ pc = "flush"
    /\ \E err \in FlushOutcomes :
          /\ trace' = Append(trace, FlushEv(err))
          /\ pc' = "read"
          /\ ret' = ret
    /\ UNCHANGED <<handles, stdout, stdin, inputs, first, last, nadds, parsed>>

\* self.stdout.flush()?
RunFlush ==
    /\ pc = "flush"
    /\ \E e \in FlushOutcomes :
       /\ trace' = Append(trace, FlushEv(e))
       /\ pc' = IF e = "none" THEN "read" ELSE "err"
       /\ ret' = IF e = "none" THEN ret ELSE Err("run", e)
    /\ UNCHANGED <<handles, stdout, stdin, inputs, first, last, nadds, parsed>>

\* let mut inputs = String::new(); self.stdin.read_line(&mut inputs)?
\* where the source does one of outcomes
RunReadOf(outcomes) ==
    /\ pc = "read"
    /\ \E r \in outcomes :
       /\ trace' = Append(trace, ReadEv(r.line, r.err))
       /\ stdin' = r.src
       /\ inputs' = r.line
       /\ pc' = IF r.err = "none" THEN "dispatch" ELSE "err"
       /\ ret' = IF r.err = "none" THEN ret ELSE Err("run", r.err)
    /\ UNCHANGED <<handles, stdout, first, last, nadds, parsed>>

\* the read from a source that delivers the lines of L in any order
RunReadFrom(L) == RunReadOf(ReadOutcomes(stdin, L))

\* (mutant of RunRead) a failing read is tried again
RunRead_retry ==
    /\ pc = "read"
    /\ \E r \in ReadOutcomes(stdin, Lines) :
       /\ trace' = Append(trace, ReadEv(r.line, r.err))
       /\ stdin' = r.src
       /\ inputs' = r.line
       /\ pc' = IF r.err = "none" THEN "dispatch" ELSE "read"
       /\ ret' = ret
    /\ UNCHANGED <<handles, stdout, first, last, nadds, parsed>>

\* the read of the main specification: the source delivers the lines of Lines
RunRead == RunReadFrom(Lines)

\* (mutant of IsEmptyInput) no line counts as empty
IsEmptyInput_never(line) == FALSE

\* inputs.trim().is_empty()
IsEmptyInput(line) == Trim(line) = <<>>

\* (mutant of AfterHandler) the loop goes on whatever the handler returned
AfterHandler_loop(sig) == "prompt"

\* (mutant of AfterHandler) the loop ends whatever the handler returned
AfterHandler_stop(sig) == "done"

\* where run goes after a handler returned sig: break on Break, else loop
AfterHandler(sig) == IF sig = "Break" THEN "done" ELSE "prompt"

\* (mutant of DispatchEmpty) an empty line ends the loop as a Break does
DispatchEmpty_stop ==
    /\ IsEmptyInput(inputs)
    /\ pc' = "done"
    /\ ret' = Ok("run")
    /\ UNCHANGED <<stdout, trace>>

\* (mutant of DispatchEmpty) an empty line is not passed over: the loop stays where it is
DispatchEmpty_stall ==
    /\ IsEmptyInput(inputs)
    /\ pc' = pc
    /\ UNCHANGED <<stdout, trace, ret>>

\* the rest of the iteration for an empty line: nothing, loop again
DispatchEmpty ==
    /\ IsEmptyInput(inputs)
    /\ pc' = "prompt"
    /\ UNCHANGED <<stdout, trace, ret>>

\* handler.execute(&mut self.stdout, &args); the handlers write with
\* write!(..).unwrap() / .expect(..), so a failing write unwinds out of run
DispatchFound(h, args) ==
    LET text == HandlerText(h, args)
        sig == HandlerSignal(h, args)
    IN  IF text = <<>>
        THEN /\ trace' = trace \o <<ExecEv(h, args), ReturnEv(h, sig)>>
             /\ pc' = AfterHandler(sig)
             /\ ret' = IF AfterHandler(sig) = "done" THEN Ok("run") ELSE ret
             /\ UNCHANGED stdout
        ELSE \E o \in WriteOutcomes(text) :
             /\ stdout' = stdout \o Accepted(text, o)
             /\ IF o.err = "none"
                THEN /\ trace' = trace \o <<ExecEv(h, args), WriteEv(text, o), ReturnEv(h, sig)>>
                     /\ pc' = AfterHandler(sig)
                     /\ ret' = IF AfterHandler(sig) = "done" THEN Ok("run") ELSE ret
                ELSE /\ trace' = trace \o <<ExecEv(h, args), WriteEv(text, o)>>
                     /\ pc' = "panic"
                     /\ ret' = ret

\* (mutant of DispatchNotFound) an unknown command ends run after its diagnostic
DispatchNotFound_fatal(command) ==
    \E o \in WriteOutcomes(NoCommandText(command)) :
       /\ stdout' = stdout \o Accepted(NoCommandText(command), o)
       /\ trace' = Append(trace, WriteEv(NoCommandText(command), o))
       /\ pc' = "err"
       /\ ret' = Err("run", IF o.err = "none" THEN "unknown command" ELSE o.err)

\* writeln!(self.stdout, "No command {}", command)?
DispatchNotFound(command) ==
    \E o \in WriteOutcomes(NoCommandText(command)) :
       /\ stdout' = stdout \o Accepted(NoCommandText(command), o)
       /\ trace' = Append(trace, WriteEv(NoCommandText(command), o))
       /\ pc' = IF o.err = "none" THEN "prompt" ELSE "err"
       /\ ret' = IF o.err = "none" THEN ret ELSE Err("run", o.err)

\* let (command, args) = parse_cmd(line); let args = split_args(args)
Tokenize(line) ==
    LET p == parse_cmd(line)
    IN  <<p[1], split_args(p[2])>>

\* (mutant of RunDispatch) the handler that was called is taken out of the registry
RunDispatch_forget ==
    /\ pc = "dispatch"
    /\ IF IsEmptyInput(inputs)
       THEN DispatchEmpty /\ UNCHANGED <<parsed, handles>>
       ELSE LET command == Tokenize(Trim(inputs))[1]
                args == Tokenize(Trim(inputs))[2]
            IN  /\ parsed' = <<command, args>>
                /\ IF get_cmd(handles, command) # "None"
                   THEN /\ DispatchFound(get_cmd(handles, command), args)
                        /\ handles' = [k \in DOMAIN handles \ {command} |-> handles[k]]
                   ELSE /\ DispatchNotFound(command)
                        /\ UNCHANGED handles
    /\ inputs' = <<>>
    /\ UNCHANGED <<stdin, first, last, nadds>>

\* the rest of the iteration, from inputs.trim() to the end of the loop body
RunDispatch ==
    /\ pc = "dispatch"
    /\ IF IsEmptyInput(inputs)
       THEN DispatchEmpty /\ UNCHANGED parsed
       ELSE LET command == Tokenize(Trim(inputs))[1]
                args == Tokenize(Trim(inputs))[2]
            IN  /\ parsed' = <<command, args>>
                /\ IF get_cmd(handles, command) # "None"
                   THEN DispatchFound(get_cmd(handles, command), args)
                   ELSE DispatchNotFound(command)
    /\ inputs' = <<>>
    /\ UNCHANGED <<handles, stdin, first, last, nadds>>

(***************************************************************************)
(* The specification.                                                      *)
(***************************************************************************)
\* Cmd::new(reader, writer): an empty registry, nothing written or read
(***************************************************************************)
(* A second Cmd, built by its own Cmd::new over its own source and sink:   *)
(* the same operations, on the fields of that value.                       *)
(***************************************************************************)
\* Cmd::new for the second Cmd
Init2 ==
    /\ handles2 = <<>>
    /\ stdout2 = <<>>
    /\ stdin2 = "open"
    /\ inputs2 = <<>>
    /\ pc2 = "idle"
    /\ ret2 = NoRet
    /\ first2 = <<>>
    /\ last2 = [name |-> <<>>, handler |-> "None"]
    /\ nadds2 = 0
    /\ parsed2 = <<<<>>, <<>>>>
    /\ trace2 = <<>>

\* (mutant of add_cmd2) the registry is one table behind every Cmd: the
\* handler is entered into the first Cmd's registry as well
add_cmd2_shared(name, handler) ==
    /\ pc2 = "idle"
    /\ nadds2 < MaxAdds
    /\ nadds2' = nadds2 + 1
    /\ last2' = [name |-> name, handler |-> handler]
    /\ first2' = IF name \in DOMAIN first2
                THEN first2
                ELSE [k \in DOMAIN first2 \cup {name} |-> IF k = name THEN handler ELSE first2[k]]
    /\ handles2' = add_cmd_handles(handles2, name, handler)
    /\ LET w == add_cmd_writes(handles2, name) IN
       IF w = <<>>
       THEN /\ ret2' = Ok("add_cmd")
            /\ UNCHANGED <<stdout2, trace2>>
       ELSE \E o \in WriteOutcomes(w[1]) :
            /\ stdout2' = stdout2 \o Accepted(w[1], o)
            /\ trace2' = Append(trace2, WriteEv(w[1], o))
            /\ ret2' = Propagate("add_cmd", o.err)
    /\ UNCHANGED <<stdin2, inputs2, pc2, parsed2>>
    /\ handles' = Insert(handles, name, handler)
    /\ UNCHANGED <<stdout, stdin, inputs, pc, ret, first, last, nadds, parsed, trace>>

\* add_cmd(name, handler) on the second Cmd
add_cmd2(name, handler) ==
    /\ pc2 = "idle"
    /\ nadds2 < MaxAdds
    /\ nadds2' = nadds2 + 1
    /\ last2' = [name |-> name, handler |-> handler]
    /\ first2' = IF name \in DOMAIN first2
                THEN first2
                ELSE [k \in DOMAIN first2 \cup {name} |-> IF k = name THEN handler ELSE first2[k]]
    /\ handles2' = add_cmd_handles(handles2, name, handler)
    /\ LET w == add_cmd_writes(handles2, name) IN
       IF w = <<>>
       THEN /\ ret2' = Ok("add_cmd")
            /\ UNCHANGED <<stdout2, trace2>>
       ELSE \E o \in WriteOutcomes(w[1]) :
            /\ stdout2' = stdout2 \o Accepted(w[1], o)
            /\ trace2' = Append(trace2, WriteEv(w[1], o))
            /\ ret2' = Propagate("add_cmd", o.err)
    /\ UNCHANGED <<stdin2, inputs2, pc2, parsed2>>
    /\ UNCHANGED vars

\* run is called on the second Cmd
RunCall2 ==
    /\ pc2 = "idle"
    /\ pc2' = "prompt"
    /\ ret2' = NoRet
    /\ trace2' = Append(trace2, RunEv)
    /\ UNCHANGED <<handles2, stdout2, stdin2, inputs2, first2, last2, nadds2, parsed2>>
    /\ UNCHANGED vars

\* write!(self.stdout, "(cmd) ")? of the second Cmd
RunPrompt2 ==
    /\ pc2 = "prompt"
    /\ CountPrompts(trace2) < MaxIter
    /\ \E o \in WriteOutcomes(Prompt) :
       /\ stdout2' = stdout2 \o Accepted(Prompt, o)
       /\ trace2' = Append(trace2, WriteEv(Prompt, o))
       /\ pc2' = IF o.err = "none" THEN "flush" ELSE "err"
       /\ ret2' = IF o.err = "none" THEN ret2 ELSE Err("run", o.err)
    /\ UNCHANGED <<handles2, stdin2, inputs2, first2, last2, nadds2, parsed2>>
    /\ UNCHANGED vars

\* self.stdout.flush()? of the second Cmd
RunFlush2 ==
    /\ pc2 = "flush"
    /\ \E e \in FlushOutcomes :
       /\ trace2' = Append(trace2, FlushEv(e))
       /\ pc2' = IF e = "none" THEN "read" ELSE "err"
       /\ ret2' = IF e = "none" THEN ret2 ELSE Err("run", e)
    /\ UNCHANGED <<handles2, stdout2, stdin2, inputs2, first2, last2, nadds2, parsed2>>
    /\ UNCHANGED vars

\* self.stdin.read_line(&mut inputs)? of the second Cmd
RunReadFrom2(L) ==
    /\ pc2 = "read"
    /\ \E r \in ReadOutcomes(stdin2, L) :
       /\ trace2' = Append(trace2, ReadEv(r.line, r.err))
       /\ stdin2' = r.src
       /\ inputs2' = r.line
       /\ pc2' = IF r.err = "none" THEN "dispatch" ELSE "err"
       /\ ret2' = IF r.err = "none" THEN ret2 ELSE Err("run", r.err)
    /\ UNCHANGED <<handles2, stdout2, first2, last2, nadds2, parsed2>>
    /\ UNCHANGED vars

\* the rest of the iteration of the second Cmd for an empty line
DispatchEmpty2 ==
    /\ IsEmptyInput(inputs2)
    /\ pc2' = "prompt"
    /\ UNCHANGED <<stdout2, trace2, ret2>>

\* handler.execute(&mut self.stdout, &args) of the second Cmd
DispatchFound2(h, args) ==
    LET text == HandlerText(h, args)
        sig == HandlerSignal(h, args)
    IN  IF text = <<>>
        THEN /\ trace2' = trace2 \o <<ExecEv(h, args), ReturnEv(h, sig)>>
             /\ pc2' = AfterHandler(sig)
             /\ ret2' = IF AfterHandler(sig) = "done" THEN Ok("run") ELSE ret2
             /\ UNCHANGED stdout2
        ELSE \E o \in WriteOutcomes(text) :
             /\ stdout2' = stdout2 \o Accepted(text, o)
             /\ IF o.err = "none"
                THEN /\ trace2' = trace2 \o <<ExecEv(h, args), WriteEv(text, o), ReturnEv(h, sig)>>
                     /\ pc2' = AfterHandler(sig)
                     /\ ret2' = IF AfterHandler(sig) = "done" THEN Ok("run") ELSE ret2
                ELSE /\ trace2' = trace2 \o <<ExecEv(h, args), WriteEv(text, o)>>
                     /\ pc2' = "panic"
                     /\ ret2' = ret2

\* writeln!(self.stdout, "No command {}", command)? of the second Cmd
DispatchNotFound2(command) ==
    \E o \in WriteOutcomes(NoCommandText(command)) :
       /\ stdout2' = stdout2 \o Accepted(NoCommandText(command), o)
       /\ trace2' = Append(trace2, WriteEv(NoCommandText(command), o))
       /\ pc2' = IF o.err = "none" THEN "prompt" ELSE "err"
       /\ ret2' = IF o.err = "none" THEN ret2 ELSE Err("run", o.err)

\* the rest of the iteration of the second Cmd
RunDispatch2 ==
    /\ pc2 = "dispatch"
    /\ IF IsEmptyInput(inputs2)
       THEN DispatchEmpty2 /\ UNCHANGED parsed2
       ELSE LET command == Tokenize(Trim(inputs2))[1]
                args == Tokenize(Trim(inputs2))[2]
            IN  /\ parsed2' = <<command, args>>
                /\ IF get_cmd(handles2, command) # "None"
                   THEN DispatchFound2(get_cmd(handles2, command), args)
                   ELSE DispatchNotFound2(command)
    /\ inputs2' = <<>>
    /\ UNCHANGED <<handles2, stdin2, first2, last2, nadds2>>
    /\ UNCHANGED vars

(***************************************************************************)
(* One Cmd: the second one is built and left alone.                        *)
(***************************************************************************)
Init ==
    /\ Init2
    /\ handles = <<>>
    /\ stdout = <<>>
    /\ stdin = "open"
    /\ inputs = <<>>
    /\ pc = "idle"
    /\ ret = NoRet
    /\ first = <<>>
    /\ last = [name |-> <<>>, handler |-> "None"]
    /\ nadds = 0
    /\ parsed = <<<<>>, <<>>>>
    /\ trace = <<>>

Next ==
    \/ (\E name \in Names, handler \in Handlers : add_cmd(name, handler)) /\ UNCHANGED vars2
    \/ (\E name \in Names, handler \in Handlers : add_cmd_fn(name, handler)) /\ UNCHANGED vars2
    \/ RunCall /\ UNCHANGED vars2
    \/ RunPrompt /\ UNCHANGED vars2
    \/ RunFlush /\ UNCHANGED vars2
    \/ RunRead /\ UNCHANGED vars2
    \/ RunDispatch /\ UNCHANGED vars2

Spec == Init /\ [][Next]_<<vars, vars2>>

(***************************************************************************)
(* run on the Cmd the tests set up, reading lines that carry arguments and *)
(* lines whose command is close to a registered name.                      *)
(***************************************************************************)
\* lines with arguments, and lines whose command is a registered name in
\* another letter case, cut short, or extended
VariantLines == {
    <<"g", "r", "e", "e", "t", " ", "a", " ", " ", "b", "\n">>,
    <<"q", "u", "i", "t", " ", "a", " ", "b", "\n">>,
    <<"G", "r", "e", "e", "t", "\n">>,
    <<"g", "r", "e", "e", "\n">>,
    <<"g", "r", "e", "e", "t", "s", "\n">> }

\* the Cmd tests::setup returns: greet is bound to Greeting, quit to Quit
SetupInit ==
    /\ Init2
    /\ handles = Insert(Insert(<<>>, greet, "Greeting"), quit, "Quit")
    /\ stdout = <<>>
    /\ stdin = "open"
    /\ inputs = <<>>
    /\ pc = "idle"
    /\ ret = Ok("add_cmd")
    /\ first = Insert(Insert(<<>>, greet, "Greeting"), quit, "Quit")
    /\ last = [name |-> quit, handler |-> "Quit"]
    /\ nadds = 2
    /\ parsed = <<<<>>, <<>>>>
    /\ trace = <<>>

\* self.stdin.read_line(&mut inputs)? on an input of those lines
RunReadVariant == RunReadFrom(VariantLines)

VariantNext ==
    \/ RunCall /\ UNCHANGED vars2
    \/ RunPrompt /\ UNCHANGED vars2
    \/ RunFlush /\ UNCHANGED vars2
    \/ RunReadVariant /\ UNCHANGED vars2
    \/ RunDispatch /\ UNCHANGED vars2

VariantSpec == SetupInit /\ [][VariantNext]_<<vars, vars2>>

(***************************************************************************)
(* The Cmd of tests::setup run over lines that carry arguments, separated  *)
(* from the command and from each other by spaces or by tabs.              *)
(***************************************************************************)
ArgLines == {
    <<"g", "r", "e", "e", "t", "\n">>,
    <<"g", "r", "e", "e", "t", " ", "b", " ", " ", "a", "\n">>,
    <<"g", "r", "e", "e", "t", " ", "a", "\t", "b", "\n">>,
    <<"g", "r", "e", "e", "t", "\t", "a", "\n">>,
    <<"q", "u", "i", "t", " ", "a", "\n">>,
    <<"n", "o", "n", " ", "a", "\n">> }

\* self.stdin.read_line(&mut inputs)? on an input of those lines
RunReadArg == RunReadFrom(ArgLines)

ArgNext ==
    \/ RunCall /\ UNCHANGED vars2
    \/ RunPrompt /\ UNCHANGED vars2
    \/ RunFlush /\ UNCHANGED vars2
    \/ RunReadArg /\ UNCHANGED vars2
    \/ RunDispatch /\ UNCHANGED vars2

ArgSpec == SetupInit /\ [][ArgNext]_<<vars, vars2>>

(***************************************************************************)
(* A new Cmd whose caller registers names of any shape: add_cmd takes any  *)
(* String as the name.                                                     *)
(***************************************************************************)
\* names a caller may pass: the empty String, a name with a space inside,
\* and the name quit
AnyNames == {<<>>, <<"a", " ", "b">>, quit}

\* the lines of the input: those names as lines, and a line of a space
NameLines == {
    <<"\n">>,
    <<"a", " ", "b", "\n">>,
    <<"q", "u", "i", "t", "\n">> }

\* self.stdin.read_line(&mut inputs)? on an input of those lines
RunReadName == RunReadFrom(NameLines)

NameNext ==
    \/ (\E name \in AnyNames, handler \in Handlers : add_cmd(name, handler)) /\ UNCHANGED vars2
    \/ (\E name \in AnyNames, handler \in Handlers : add_cmd_fn(name, handler)) /\ UNCHANGED vars2
    \/ RunCall /\ UNCHANGED vars2
    \/ RunPrompt /\ UNCHANGED vars2
    \/ RunFlush /\ UNCHANGED vars2
    \/ RunReadName /\ UNCHANGED vars2
    \/ RunDispatch /\ UNCHANGED vars2

NameSpec == Init /\ [][NameNext]_<<vars, vars2>>

(***************************************************************************)
(* Two Cmd values used in turn, in any order: each registers its handlers  *)
(* and runs over its own source and sink.                                  *)
(***************************************************************************)
\* each Cmd takes part with at most this many events of its trace
MaxEvents == 7

\* the lines the two sources deliver
TwoLines == {
    <<"g", "r", "e", "e", "t", "\n">>,
    <<"q", "u", "i", "t", "\n">> }

TwoNext ==
    \/ Len(trace) < MaxEvents /\ add_cmd(greet, "Greeting") /\ UNCHANGED vars2
    \/ Len(trace) < MaxEvents /\ add_cmd(quit, "Quit") /\ UNCHANGED vars2
    \/ Len(trace) < MaxEvents /\ RunCall /\ UNCHANGED vars2
    \/ Len(trace) < MaxEvents /\ RunPrompt /\ UNCHANGED vars2
    \/ Len(trace) < MaxEvents /\ RunFlush /\ UNCHANGED vars2
    \/ Len(trace) < MaxEvents /\ RunReadFrom(TwoLines) /\ UNCHANGED vars2
    \/ Len(trace) < MaxEvents /\ RunDispatch /\ UNCHANGED vars2
    \/ Len(trace2) < MaxEvents /\ add_cmd2(greet, "HelloFn")
    \/ Len(trace2) < MaxEvents /\ RunCall2
    \/ Len(trace2) < MaxEvents /\ RunPrompt2
    \/ Len(trace2) < MaxEvents /\ RunFlush2
    \/ Len(trace2) < MaxEvents /\ RunReadFrom2(TwoLines)
    \/ Len(trace2) < MaxEvents /\ RunDispatch2

TwoSpec == Init /\ [][TwoNext]_<<vars, vars2>>

(***************************************************************************)
(* run to its end: the Cmd the tests set up reads an input whose lines are *)
(* fixed from the start, as the file of the tests is, and every statement  *)
(* of run that can be executed is executed in the end.                     *)
(***************************************************************************)
\* the lines an input is made of
ScriptLines == {
    <<"g", "r", "e", "e", "t", "\n">>,
    <<"q", "u", "i", "t", "\n">>,
    <<"n", "o", "n", "\n">>,
    <<" ", "\n">> }

\* an input holds at most this many lines
MaxScript == 2

\* the inputs: every sequence of at most MaxScript of those lines
Scripts == UNION {[1..n -> ScriptLines] : n \in 0..MaxScript}

\* What read_line may do on an input whose remaining lines are src: fail,
\* deliver the next line, or report the end of the input (Ok(0)) when no
\* line is left.
ScriptOutcomes(src) ==
    {[line |-> <<>>, err |-> ReadErr, src |-> src]}
    \cup {IF src = <<>>
          THEN [line |-> <<>>, err |-> "none", src |-> <<>>]
          ELSE [line |-> Head(src), err |-> "none", src |-> Tail(src)]}

\* the Cmd tests::setup returns, over one of the inputs; stdin holds the
\* lines not read yet
ScriptInit ==
    /\ Init2
    /\ handles = Insert(Insert(<<>>, greet, "Greeting"), quit, "Quit")
    /\ stdout = <<>>
    /\ stdin \in Scripts
    /\ inputs = <<>>
    /\ pc = "idle"
    /\ ret = Ok("add_cmd")
    /\ first = Insert(Insert(<<>>, greet, "Greeting"), quit, "Quit")
    /\ last = [name |-> quit, handler |-> "Quit"]
    /\ nadds = 2
    /\ parsed = <<<<>>, <<>>>>
    /\ trace = <<>>

\* self.stdin.read_line(&mut inputs)? on that input
RunReadScript == RunReadOf(ScriptOutcomes(stdin))

ScriptNext ==
    \/ RunCall /\ UNCHANGED vars2
    \/ RunPrompt /\ UNCHANGED vars2
    \/ RunFlush /\ UNCHANGED vars2
    \/ RunReadScript /\ UNCHANGED vars2
    \/ RunDispatch /\ UNCHANGED vars2

\* run is sequential code on one thread: a statement that is reached is
\* executed, and a read on a file returns
ScriptFairness ==
    /\ WF_vars(RunPrompt)
    /\ WF_vars(RunFlush)
    /\ WF_vars(RunReadScript)
    /\ WF_vars(RunDispatch)

ScriptSpec == ScriptInit /\ [][ScriptNext]_<<vars, vars2>> /\ ScriptFairness

(***************************************************************************)
(* The tokenizer alone: parse_cmd and split_args applied to each line of a *)
(* bounded set, as the unit tests of parse_cmd and split_args apply them.  *)
(***************************************************************************)
\* the characters the lines are made of: two letters, the space and the tab
TokChars == {"a", "b", " ", "\t"}

\* every line of at most MaxLineLen characters, and the two lines of the
\* examples: "  cmd   a   b  " and "cmd<tab>a b"
TokLines ==
    UNION {[1..n -> TokChars] : n \in 0..MaxLineLen}
    \cup {<<" ", " ", "c", "m", "d", " ", " ", " ", "a", " ", " ", " ", "b", " ", " ">>,
          <<"c", "m", "d", "\t", "a", " ", "b">>}

\* a line is given to the tokenizer
TokInit ==
    /\ Init2
    /\ handles = <<>>
    /\ stdout = <<>>
    /\ stdin = "open"
    /\ inputs \in TokLines
    /\ pc = "tokenize"
    /\ ret = NoRet
    /\ first = <<>>
    /\ last = [name |-> <<>>, handler |-> "None"]
    /\ nadds = 0
    /\ parsed = <<<<>>, <<>>>>
    /\ trace = <<>>

\* let (command, args) = parse_cmd(inputs); let args = split_args(args)
TokenizeLine ==
    /\ pc = "tokenize"
    /\ parsed' = Tokenize(inputs)
    /\ pc' = "tokenized"
    /\ UNCHANGED <<handles, stdout, stdin, inputs, ret, first, last, nadds, trace>>

\* words.join(" "): the words with one space between each two
RECURSIVE Join(_)
Join(words) ==
    IF words = <<>> THEN <<>>
    ELSE IF Len(words) = 1 THEN words[1]
    ELSE words[1] \o <<" ">> \o Join(Tail(words))

\* the command and the args of a result of the tokenizer, as one line
Normalized(r) == Join(<<r[1]>> \o r[2])

\* parse_cmd and split_args again, on the line made of their own result
Retokenize ==
    /\ pc = "tokenized"
    /\ parsed' = Tokenize(Normalized(parsed))
    /\ pc' = "retokenized"
    /\ UNCHANGED <<handles, stdout, stdin, inputs, ret, first, last, nadds, trace>>

TokNext ==
    \/ TokenizeLine /\ UNCHANGED vars2
    \/ Retokenize /\ UNCHANGED vars2

TokSpec == TokInit /\ [][TokNext]_<<vars, vars2>>

(***************************************************************************)
(* Properties of the registry.                                             *)
(***************************************************************************)
\* the latest step was a call of add_cmd / add_cmd_fn
AddStep == nadds' = nadds + 1

\* C1: the handler bound to a name is the handler passed by the first
\* add_cmd / add_cmd_fn call that used the name; no step replaces, removes or
\* alters a binding, and the set of registered names never shrinks.
C1_FirstBindingKept ==
    /\ [](handles = first)
    /\ [][\A n \in DOMAIN handles :
            n \in DOMAIN handles' /\ handles'[n] = handles[n]]_vars

\* a call with a used name and another handler has returned, and the first handler is still bound
C1_Witness ==
    /\ ret.call = "add_cmd"
    /\ nadds >= 2
    /\ last.name \in DOMAIN handles
    /\ handles[last.name] # last.handler

\* the warning for each name of the model, spelled out
C2_Warning(name) ==
    CASE name = greet -> <<"W", "a", "r", "n", "i", "n", "g", ":", " ", "C", "o", "m", "m", "a", "n", "d", " ", "w", "i", "t", "h", " ", "h", "a", "n", "d", "l", "e", " ", "g", "r", "e", "e", "t", " ", "a", "l", "r", "e", "a", "d", "y", " ", "e", "x", "i", "s", "t", "s", ".">>
      [] name = quit -> <<"W", "a", "r", "n", "i", "n", "g", ":", " ", "C", "o", "m", "m", "a", "n", "d", " ", "w", "i", "t", "h", " ", "h", "a", "n", "d", "l", "e", " ", "q", "u", "i", "t", " ", "a", "l", "r", "e", "a", "d", "y", " ", "e", "x", "i", "s", "t", "s", ".">>

\* C2: add_cmd with a registered name issues exactly one write to the sink,
\* of the text "Warning: Command with handle {name} already exists." with no
\* line end, and the sink grows by exactly that text when it accepts the
\* write; add_cmd with an unused name writes nothing.
C2_WarningWritten ==
    [][AddStep =>
        IF last'.name \in DOMAIN handles
        THEN /\ Len(trace') = Len(trace) + 1
             /\ SubSeq(trace', 1, Len(trace)) = trace
             /\ LET e == trace'[Len(trace')] IN
                /\ e.op = "write"
                /\ e.data = C2_Warning(last'.name)
                /\ stdout' = stdout \o SubSeq(e.data, 1, e.n)
                /\ e.err = "none" => stdout' = stdout \o C2_Warning(last'.name)
        ELSE /\ trace' = trace
             /\ stdout' = stdout]_vars

\* greet was registered twice and the sink holds exactly the warning
C2_Witness ==
    /\ pc = "idle"
    /\ nadds = 2
    /\ ret = Ok("add_cmd")
    /\ stdout = <<"W", "a", "r", "n", "i", "n", "g", ":", " ", "C", "o", "m", "m", "a", "n", "d", " ", "w", "i", "t", "h", " ", "h", "a", "n", "d", "l", "e", " ", "g", "r", "e", "e", "t", " ", "a", "l", "r", "e", "a", "d", "y", " ", "e", "x", "i", "s", "t", "s", ".">>

\* C3: add_cmd returns an error exactly when the name is registered and the
\* write of the warning fails; the error is then the sink's error and the
\* registry is unchanged.  For an unused name it touches no sink, succeeds and
\* inserts the handler; for a used name and an accepted write it succeeds.
C3_AddCmdResult ==
    [][AddStep =>
        LET name == last'.name
            used == name \in DOMAIN handles
            wrote == Len(trace') = Len(trace) + 1
            failed == wrote /\ trace'[Len(trace')].err # "none"
        IN  /\ ret'.call = "add_cmd"
            /\ (~ret'.ok) <=> (used /\ failed)
            /\ (~ret'.ok) => /\ ret'.err = trace'[Len(trace')].err
                             /\ handles' = handles
            /\ (~used) => /\ ret'.ok
                          /\ ~wrote
                          /\ name \in DOMAIN handles'
                          /\ handles'[name] = last'.handler
            /\ (used /\ ~failed) => ret'.ok]_vars

\* a call with a used name returned the sink's write error
C3_Witness ==
    /\ ret.call = "add_cmd"
    /\ ~ret.ok
    /\ ret.err = "failed on write"
    /\ last.name \in DOMAIN handles

\* what executing handler h with no arguments is seen to do
Observed(h) == <<HandlerText(h, <<>>), HandlerSignal(h, <<>>)>>

\* C4: once a name has been registered, looking it up returns a handler, and
\* that handler writes the bytes and returns the signal of the handler that
\* was registered.
C4_LookupReturnsRegistered ==
    \A n \in DOMAIN first :
        /\ get_cmd(handles, n) # "None"
        /\ get_cmd(handles, n) \in Handlers
        /\ Observed(get_cmd(handles, n)) = Observed(first[n])

\* greet was registered with Greeting, and the lookup gives a handler writing "Hello there!"
C4_Witness ==
    /\ greet \in DOMAIN first
    /\ first[greet] = "Greeting"
    /\ HandlerText(get_cmd(handles, greet), <<>>) = <<"H", "e", "l", "l", "o", " ", "t", "h", "e", "r", "e", "!">>

(***************************************************************************)
(* Properties of run.                                                      *)
(***************************************************************************)
\* "(cmd) ", spelled out
PromptLit == <<"(", "c", "m", "d", ")", " ">>

\* the position of the last entry of t among the first i whose op is o, 0 when there is none
RECURSIVE LastIndex(_, _, _)
LastIndex(t, o, i) ==
    IF i = 0 THEN 0
    ELSE IF t[i].op = o THEN i
    ELSE LastIndex(t, o, i - 1)

\* the position in t of the entry of run, 0 when run was not called
RunIndex(t) == LastIndex(t, "run", Len(t))

\* the bytes the writes among the first i entries of t put into the sink
RECURSIVE BytesOf(_, _)
BytesOf(t, i) ==
    IF i = 0 THEN <<>>
    ELSE BytesOf(t, i - 1)
         \o (IF t[i].op = "write" THEN SubSeq(t[i].data, 1, t[i].n) ELSE <<>>)

\* what the sink held when run was entered
PreRunBytes == BytesOf(trace, RunIndex(trace))

\* the lines the successful reads among the first i entries of t delivered, in order
RECURSIVE LinesReadTo(_, _)
LinesReadTo(t, i) ==
    IF i = 0 THEN <<>>
    ELSE LinesReadTo(t, i - 1)
         \o (IF t[i].op = "read" /\ t[i].err = "none" THEN <<t[i].data>> ELSE <<>>)

LinesRead(t) == LinesReadTo(t, Len(t))

\* the line the last read delivered; <<>> when nothing was read
LastLine ==
    LET k == LastIndex(trace, "read", Len(trace))
    IN  IF k = 0 THEN <<>> ELSE trace[k].data

\* no write, flush or read of run has failed
RunIoOk == \A i \in 1..Len(trace) : trace[i].op = "run" \/ i < RunIndex(trace) \/ trace[i].err = "none"

\* the line is empty or holds white space only
Blank(line) == \A i \in 1..Len(line) : line[i] \in {" ", "\t", "\n", "\r"}

\* the command of a line, as run takes it from the line: the first item parse_cmd returns
CommandOf(line) == parse_cmd(line)[1]

\* the line stops the loop: its command is bound to a handler that returns Break
Stops(line) ==
    /\ ~Blank(line)
    /\ CommandOf(line) \in DOMAIN handles
    /\ HandlerSignal(handles[CommandOf(line)], <<>>) = "Break"

\* what run is to write for one line: the prompt, then nothing, the handler's
\* output, or the diagnostic
ExpectedFor(line) ==
    PromptLit \o
    (IF Blank(line) THEN <<>>
     ELSE IF CommandOf(line) \in DOMAIN handles
          THEN HandlerText(handles[CommandOf(line)], <<>>)
          ELSE <<"N", "o", " ", "c", "o", "m", "m", "a", "n", "d", " ">> \o CommandOf(line) \o <<"\n">>)

RECURSIVE ExpectedOutput(_)
ExpectedOutput(lines) ==
    IF lines = <<>> THEN <<>>
    ELSE ExpectedFor(Head(lines)) \o ExpectedOutput(Tail(lines))

\* C5: when the lines read end with the first line whose command is bound to
\* a Break-returning handler, that line has been dispatched and no I/O of run
\* failed, run has returned Ok and the bytes it wrote are, line by line, the
\* prompt followed by nothing (empty line), the handler's output (registered
\* command) or "No command {command}\n" (unregistered command).
C5_RunOutput ==
    (pc # "dispatch" /\ Stops(LastLine) /\ RunIoOk)
        => /\ pc = "done"
           /\ ret = Ok("run")
           /\ stdout = PreRunBytes \o ExpectedOutput(LinesRead(trace))

\* greet, non, quit were read and run returned with the output of the example
C5_Witness ==
    /\ pc = "done"
    /\ ret = Ok("run")
    /\ Len(LinesRead(trace)) = 3
    /\ stdout = <<"(", "c", "m", "d", ")", " ", "H", "e", "l", "l", "o", " ", "t", "h", "e", "r", "e", "!", "(", "c", "m", "d", ")", " ", "N", "o", " ", "c", "o", "m", "m", "a", "n", "d", " ", "n", "o", "n", "\n", "(", "c", "m", "d", ")", " ">>

\* the writes of the prompt in t
PromptWrites(t) ==
    Cardinality({i \in 1..Len(t) : t[i].op = "write" /\ t[i].data = PromptLit})

\* C6: every read is immediately preceded by a successful flush, and that by
\* a write of exactly "(cmd) " the sink accepted, so the prompts written are
\* as many as the reads attempted or one more.
C6_PromptBeforeRead ==
    /\ \A i \in 1..Len(trace) :
          trace[i].op = "read" =>
             /\ i > 2
             /\ trace[i - 1].op = "flush"
             /\ trace[i - 1].err = "none"
             /\ trace[i - 2].op = "write"
             /\ trace[i - 2].data = PromptLit
             /\ trace[i - 2].n = Len(PromptLit)
             /\ trace[i - 2].err = "none"
    /\ PromptWrites(trace) - CountOp(trace, "read") \in {0, 1}

\* two lines were read, each after its prompt and flush, and a third prompt is flushed
C6_Witness ==
    /\ pc = "read"
    /\ CountOp(trace, "read") = 2
    /\ PromptWrites(trace) = 3

\* C7: a handler's return of Break is the last thing that happens in run:
\* run has returned Ok, and no write, flush, read or handler call follows it.
C7_BreakReturnsAtOnce ==
    \A i \in 1..Len(trace) :
        (trace[i].op = "return" /\ trace[i].sig = "Break")
            => /\ i = Len(trace)
               /\ pc = "done"
               /\ ret = Ok("run")

\* the first line stopped the loop while the source had more to deliver
C7_Witness ==
    /\ pc = "done"
    /\ stdin = "open"
    /\ CountOp(trace, "read") = 1
    /\ trace[Len(trace)].op = "return"

\* the step dispatches a line whose command is not registered
UnknownCommandStep ==
    /\ pc = "dispatch"
    /\ pc' # "dispatch"
    /\ ~Blank(inputs)
    /\ CommandOf(inputs) \notin DOMAIN handles

\* the one event the step adds is the write of the diagnostic for the command
DiagnosticWritten ==
    /\ Len(trace') = Len(trace) + 1
    /\ SubSeq(trace', 1, Len(trace)) = trace
    /\ trace'[Len(trace')].op = "write"
    /\ trace'[Len(trace')].data = <<"N", "o", " ", "c", "o", "m", "m", "a", "n", "d", " ">> \o CommandOf(inputs) \o <<"\n">>

\* C8 as stated: a line with an unregistered command always leaves run
\* running: the diagnostic is written, no handler is called, the registry is
\* unchanged and run goes on to the next prompt.
C8_UnknownAlwaysContinues ==
    [][UnknownCommandStep =>
        /\ DiagnosticWritten
        /\ handles' = handles
        /\ pc' = "prompt"]_vars

\* C8, amended: the diagnostic "No command {command}\n" is written, no
\* handler is called and the registry is unchanged; when the sink accepts the
\* write run stays running and goes on to the next prompt, and when the write
\* fails run returns the sink's error.
C8_UnknownContinuesIfWritten ==
    [][UnknownCommandStep =>
        /\ DiagnosticWritten
        /\ handles' = handles
        /\ LET e == trace'[Len(trace')] IN
           IF e.err = "none"
           THEN /\ pc' = "prompt"
                /\ ret' = ret
                /\ stdout' = stdout \o e.data
           ELSE /\ pc' = "err"
                /\ ret' = Err("run", e.err)]_vars

\* the diagnostic for "non" was written and run is at the next prompt
C8_Witness ==
    /\ pc = "prompt"
    /\ trace[Len(trace)].op = "write"
    /\ trace[Len(trace)].data = <<"N", "o", " ", "c", "o", "m", "m", "a", "n", "d", " ", "n", "o", "n", "\n">>
    /\ trace[Len(trace)].err = "none"

\* C9: after a line that is empty or all white space nothing is done but the
\* next prompt: no handler is called and no diagnostic is written, the next
\* event is the write of "(cmd) ", then its flush, then the next read.
C9_BlankLineReprompts ==
    \A i \in 1..Len(trace) :
        (trace[i].op = "read" /\ trace[i].err = "none" /\ Blank(trace[i].data))
            => /\ i = Len(trace) => pc \in {"dispatch", "prompt"}
               /\ i + 1 <= Len(trace) =>
                     trace[i + 1].op = "write" /\ trace[i + 1].data = PromptLit
               /\ i + 2 <= Len(trace) => trace[i + 2].op = "flush"
               /\ i + 3 <= Len(trace) => trace[i + 3].op = "read"

\* a line of white space was read and the next prompt followed it
C9_Witness ==
    \E i \in 1..Len(trace) :
        /\ trace[i].op = "read"
        /\ trace[i].data = <<" ", "\n">>
        /\ i + 3 <= Len(trace)
        /\ trace[i + 3].op = "read"

\* C10: a failing read is the last thing that happens in run: run has
\* returned the error of that read, nothing is written, read or called after
\* it; when the first read fails, run has written the one prompt and no more.
C10_ReadErrorReturned ==
    /\ \A i \in 1..Len(trace) :
          (trace[i].op = "read" /\ trace[i].err # "none")
              => /\ i = Len(trace)
                 /\ pc = "err"
                 /\ ret = Err("run", trace[i].err)
    /\ (CountOp(trace, "read") = 1 /\ trace[Len(trace)].err # "none"
           /\ trace[Len(trace)].op = "read")
          => stdout = PreRunBytes \o PromptLit

\* the first read failed and run returned "failed on read"
C10_Witness ==
    /\ pc = "err"
    /\ CountOp(trace, "read") = 1
    /\ ret = Err("run", "failed on read")

\* C11: a write of run that the sink fails (the prompt, the diagnostic or what
\* a handler writes) is the last event of run, and run has returned the
\* error of that write.
C11_WriteErrorReturned ==
    \A i \in 1..Len(trace) :
        (RunIndex(trace) > 0 /\ i > RunIndex(trace)
            /\ trace[i].op = "write" /\ trace[i].err # "none")
            => /\ i = Len(trace)
               /\ pc = "err"
               /\ ret = Err("run", trace[i].err)

\* C12: a write that fails inside handler.execute makes run return the error
\* of that write.
C12_HandlerWriteErrorReturned ==
    \A i \in 2..Len(trace) :
        (trace[i - 1].op = "exec" /\ trace[i].op = "write" /\ trace[i].err # "none")
            => /\ i = Len(trace)
               /\ pc = "err"
               /\ ret = Err("run", trace[i].err)

\* C13: a failing flush is the last event of run: run has returned the error
\* of that flush; no second flush, no read and no handler call follows it.
C13_FlushErrorReturned ==
    \A i \in 1..Len(trace) :
        (trace[i].op = "flush" /\ trace[i].err # "none")
            => /\ i = Len(trace)
               /\ pc = "err"
               /\ ret = Err("run", trace[i].err)

\* after a first iteration that went through, the flush of the second prompt
\* failed and run returned "failed on flush"
C13_Witness ==
    /\ pc = "err"
    /\ ret = Err("run", "failed on flush")
    /\ trace[Len(trace)].op = "flush"
    /\ CountOp(trace, "read") = 1

(***************************************************************************)
(* Properties of the tokenizer.                                            *)
(***************************************************************************)
\* the separators of a line
IsSeparator(c) == c \in {" ", "\t"}

\* the maximal runs of non-separator characters of s, in their order
RECURSIVE MaximalRuns(_)
MaximalRuns(s) ==
    IF s = <<>> THEN <<>>
    ELSE IF IsSeparator(Head(s)) THEN MaximalRuns(Tail(s))
    ELSE LET n == CHOOSE k \in 1..Len(s) :
                      /\ \A j \in 1..k : ~IsSeparator(s[j])
                      /\ k = Len(s) \/ IsSeparator(s[k + 1])
         IN  <<SubSeq(s, 1, n)>> \o MaximalRuns(SubSeq(s, n + 1, Len(s)))

\* C14: the tokenizer splits a line at its runs of spaces and tabs: the
\* command is the first maximal run of other characters ("" when there is
\* none) and the args are the remaining maximal runs, in their order.
C14_SplitsOnSpaceAndTab ==
    pc = "tokenized"
        => LET runs == MaximalRuns(inputs)
           IN  IF runs = <<>>
               THEN parsed = <<<<>>, <<>>>>
               ELSE parsed = <<Head(runs), Tail(runs)>>

\* r is a result of the tokenizer: a command and a list of args, each arg a
\* text of one character or more
IsTokenized(r) ==
    /\ DOMAIN r = 1..2
    /\ DOMAIN r[1] = 1..Len(r[1])
    /\ DOMAIN r[2] = 1..Len(r[2])
    /\ \A k \in 1..Len(r[2]) : Len(r[2][k]) >= 1

\* C15: the tokenizer yields a result for every line, and for a line that
\* is empty or made of separators only the result is the empty command and
\* no args.
C15_TokenizerTotal ==
    /\ pc = "tokenize" => IsTokenized(Tokenize(inputs))
    /\ pc = "tokenized" => IsTokenized(parsed)
    /\ (pc = "tokenized" /\ \A i \in 1..Len(inputs) : IsSeparator(inputs[i]))
          => parsed = <<<<>>, <<>>>>

\* the line " <tab> " was tokenized to the empty command and no args
C15_Witness ==
    /\ pc = "tokenized"
    /\ inputs = <<" ", "\t", " ">>
    /\ parsed = <<<<>>, <<>>>>

(***************************************************************************)
(* Properties of the handlers and of the lookup of run.                    *)
(***************************************************************************)
\* C16: whatever args Quit is called with, its execute returns Break and
\* writes nothing: the event after the call of Quit is its return of Break.
C16_QuitBreaksSilently ==
    \A i \in 1..Len(trace) :
        (trace[i].op = "exec" /\ trace[i].h = "Quit")
            => /\ i + 1 <= Len(trace)
               /\ trace[i + 1].op = "return"
               /\ trace[i + 1].h = "Quit"
               /\ trace[i + 1].sig = "Break"

\* Quit was called with the args a, b and returned
C16_Witness ==
    \E i \in 1..Len(trace) :
        /\ trace[i].op = "exec"
        /\ trace[i].h = "Quit"
        /\ trace[i].args = <<<<"a">>, <<"b">>>>
        /\ i + 1 <= Len(trace)

\* the letter c in lower case, for the letters of the model's lines
LowerChar(c) == IF c = "G" THEN "g" ELSE c

\* the text s in lower case
Lower(s) == [i \in 1..Len(s) |-> LowerChar(s[i])]

\* s is the start of t and shorter than t
StrictPrefix(s, t) == Len(s) < Len(t) /\ SubSeq(t, 1, Len(s)) = s

\* c is no registered name, but is one in another letter case, or the start
\* of one, or one with more characters after it
NearMiss(c) ==
    /\ c \notin DOMAIN handles
    /\ \E n \in DOMAIN handles :
          \/ Lower(c) = Lower(n)
          \/ StrictPrefix(c, n)
          \/ StrictPrefix(n, c)

\* C17: a line whose command is close to a registered name without being one
\* is an unknown command: the next event of run is the write of
\* "No command <command>\n", not the call of a handler.
C17_ExactMatchOnly ==
    \A i \in 1..Len(trace) :
        (trace[i].op = "read" /\ trace[i].err = "none"
            /\ ~Blank(trace[i].data) /\ NearMiss(CommandOf(trace[i].data)))
            => /\ i = Len(trace) => pc = "dispatch"
               /\ i + 1 <= Len(trace) =>
                     /\ trace[i + 1].op = "write"
                     /\ trace[i + 1].data =
                            <<"N", "o", " ", "c", "o", "m", "m", "a", "n", "d", " ">>
                            \o CommandOf(trace[i].data) \o <<"\n">>
               /\ i + 2 <= Len(trace) => trace[i + 2].op # "exec"

\* the lines Greet, gree and greets were read and each was answered with
\* its diagnostic
C17_Witness ==
    /\ stdout = <<"(", "c", "m", "d", ")", " ">>
                \o <<"N", "o", " ", "c", "o", "m", "m", "a", "n", "d", " ", "G", "r", "e", "e", "t", "\n">>
                \o <<"(", "c", "m", "d", ")", " ">>
                \o <<"N", "o", " ", "c", "o", "m", "m", "a", "n", "d", " ", "g", "r", "e", "e", "\n">>
                \o <<"(", "c", "m", "d", ")", " ">>
                \o <<"N", "o", " ", "c", "o", "m", "m", "a", "n", "d", " ", "g", "r", "e", "e", "t", "s", "\n">>
    /\ CountOp(trace, "exec") = 0
    /\ pc = "prompt"

\* what a registration of handler h under name n is to do: bind n to h when n
\* is unused and write nothing, else keep the registry and write the warning
\* once; the result is Ok unless that write failed
RegistrationEffect(n, h) ==
    IF n \in DOMAIN handles
    THEN /\ handles' = handles
         /\ Len(trace') = Len(trace) + 1
         /\ SubSeq(trace', 1, Len(trace)) = trace
         /\ LET e == trace'[Len(trace')] IN
            /\ e.op = "write"
            /\ e.data = C2_Warning(n)
            /\ stdout' = stdout \o SubSeq(e.data, 1, e.n)
            /\ ret' = IF e.err = "none" THEN Ok("add_cmd") ELSE Err("add_cmd", e.err)
    ELSE /\ DOMAIN handles' = DOMAIN handles \cup {n}
         /\ handles'[n] = h
         /\ \A k \in DOMAIN handles : handles'[k] = handles[k]
         /\ trace' = trace
         /\ stdout' = stdout
         /\ ret' = Ok("add_cmd")

\* C18: a step of add_cmd_fn(n, h) is a step of add_cmd(n, h) and the other
\* way round: from the same registry both leave the same registry, write the
\* same warning or none, and return the same result.  A closure that run
\* finds for a command is called with the sink and the args of the line as
\* any handler is: its text is written, and when that write is accepted its
\* CommandResult decides whether the loop goes on.
C18_FnAsAddCmd ==
    /\ [][\A n \in Names, h \in FnHandlers :
            /\ add_cmd_fn(n, h) <=> add_cmd(n, h)
            /\ add_cmd_fn(n, h) => RegistrationEffect(n, h)]_vars
    /\ [](\A i \in 2..Len(trace) :
            (trace[i].op = "exec" /\ trace[i].h \in FnHandlers)
                => /\ trace[i - 1].op = "read"
                   /\ handles[CommandOf(trace[i - 1].data)] = trace[i].h
                   /\ i + 1 <= Len(trace)
                   /\ trace[i + 1].op = "write"
                   /\ trace[i + 1].data = <<"h", "e", "l", "l", "o", "!", "\n">>
                   /\ trace[i + 1].err = "none" =>
                         /\ i + 2 <= Len(trace)
                         /\ trace[i + 2].op = "return"
                         /\ trace[i + 2].sig = "Continue"
                         /\ i + 2 = Len(trace) => pc = "prompt")

\* a closure was registered under greet, a later registration of greet was
\* refused, and run called the closure for the line greet
C18_Witness ==
    /\ nadds = 2
    /\ first = Insert(<<>>, greet, "HelloFn")
    /\ handles = first
    /\ last.handler # "HelloFn"
    /\ \E i \in 1..Len(trace) :
          /\ trace[i].op = "return"
          /\ trace[i].h = "HelloFn"

(***************************************************************************)
(* How run ends.                                                           *)
(***************************************************************************)
\* C20: run has returned Ok only when the last thing it did was to call a
\* handler that returned Break, with no failed write, flush or read before
\* it; after anything else (an error, a diagnostic, an empty line, a handler
\* that returned Continue) run has not returned Ok.
C20_OkOnlyAfterBreak ==
    (ret = Ok("run") \/ pc = "done")
        => /\ ret = Ok("run")
           /\ pc = "done"
           /\ Len(trace) >= 2
           /\ trace[Len(trace)].op = "return"
           /\ trace[Len(trace)].sig = "Break"
           /\ trace[Len(trace) - 1].op \in {"exec", "write"}
           /\ \A i \in 1..Len(trace) :
                 (i > RunIndex(trace) /\ trace[i].op \in {"write", "flush", "read"})
                     => trace[i].err = "none"

\* run returned Ok after a handler that returned Continue, a diagnostic and
\* the handler that returned Break
C20_Witness ==
    /\ ret = Ok("run")
    /\ \E i \in 1..Len(trace) : trace[i].op = "return" /\ trace[i].sig = "Continue"
    /\ \E i \in 1..Len(trace) :
          /\ trace[i].op = "write"
          /\ trace[i].data = <<"N", "o", " ", "c", "o", "m", "m", "a", "n", "d", " ", "n", "o", "n", "\n">>

(***************************************************************************)
(* Two Cmd values side by side.                                            *)
(***************************************************************************)
\* a step of the first Cmd as it takes it when it is the only one
CmdStep ==
    \/ \E name \in Names, handler \in Handlers : add_cmd(name, handler)
    \/ RunCall
    \/ RunPrompt
    \/ RunFlush
    \/ RunReadFrom(TwoLines)
    \/ RunDispatch

\* a step of the second Cmd as it takes it when it is the only one
CmdStep2 ==
    \/ \E name \in Names, handler \in Handlers : add_cmd2(name, handler)
    \/ RunCall2
    \/ RunPrompt2
    \/ RunFlush2
    \/ RunReadFrom2(TwoLines)
    \/ RunDispatch2

\* C19: with two Cmd values used in turn, every step that changes a field
\* of one Cmd is a step that Cmd takes alone and changes nothing of the
\* other; the registry of each is what its own add_cmd calls made it and the
\* bytes in its sink are those of its own writes.
C19_NoInterference ==
    /\ [][CmdStep /\ UNCHANGED vars2]_vars
    /\ [][CmdStep2 /\ UNCHANGED vars]_vars2
    /\ [](/\ handles = first
          /\ handles2 = first2
          /\ stdout = BytesOf(trace, Len(trace))
          /\ stdout2 = BytesOf(trace2, Len(trace2)))

\* the first Cmd, with greet and quit registered, returned Ok on the line
\* quit, while the second, with a closure under greet, answered the same
\* line with its diagnostic
C19_Witness ==
    /\ handles = Insert(Insert(<<>>, greet, "Greeting"), quit, "Quit")
    /\ handles2 = Insert(<<>>, greet, "HelloFn")
    /\ ret = Ok("run")
    /\ stdout = <<"(", "c", "m", "d", ")", " ">>
    /\ stdout2 = <<"(", "c", "m", "d", ")", " ", "N", "o", " ", "c", "o", "m", "m", "a", "n", "d", " ", "q", "u", "i", "t", "\n">>

(***************************************************************************)
(* Whether run ends.                                                       *)
(***************************************************************************)
\* run is at one of its statements: called, and neither returned nor unwound
Running == pc \in {"prompt", "flush", "read", "dispatch"}

\* a line that stops the loop is still to come: it is the line being
\* dispatched or one of the lines not read yet
BreakAhead ==
    \/ pc = "dispatch" /\ Stops(inputs)
    \/ \E k \in 1..Len(stdin) : Stops(stdin[k])

\* C21: when run is under way on an input that still holds a line whose
\* command is bound to a handler returning Break, then, unless a read, a
\* write or a flush fails, run returns Ok in the end, having read no more
\* lines than the input holds.
C21_BreakLineEndsRun ==
    (Running /\ BreakAhead)
        ~> \/ pc \in {"err", "panic"}
           \/ /\ pc = "done"
              /\ ret = Ok("run")
              /\ CountOp(trace, "read") <= MaxScript

\* run returned Ok on the second line of its input, after a line for a
\* handler that returned Continue
C21_Witness ==
    /\ pc = "done"
    /\ ret = Ok("run")
    /\ stdin = <<>>
    /\ CountOp(trace, "read") = 2
    /\ \E i \in 1..Len(trace) : trace[i].op = "return" /\ trace[i].sig = "Continue"

\* the position in t of the first read that met the end of the input
\* (Ok(0): no error and no data), 0 when there is none
RECURSIVE FirstEof(_, _)
FirstEof(t, i) ==
    IF i > Len(t) THEN 0
    ELSE IF t[i].op = "read" /\ t[i].err = "none" /\ t[i].data = <<>> THEN i
    ELSE FirstEof(t, i + 1)

\* C22 as stated: once a read has met the end of the input, run never
\* returns, neither with Ok nor with an error.
C22_EofNeverReturns ==
    FirstEof(trace, 1) > 0 => pc \notin {"done", "err", "panic"}

\* C22: once a read has met the end of the input, run does nothing but
\* write the prompt, flush and read again: no handler is called, no
\* diagnostic is written and run never returns Ok; it returns only the error
\* of a prompt write, a flush or a read that fails, and as long as none
\* fails it goes on writing prompts (in the model, up to MaxIter of them).
C22_EofReprompts ==
    /\ [](LET e == FirstEof(trace, 1) IN
          e > 0 =>
             /\ pc \notin {"done", "panic"}
             /\ ret # Ok("run")
             /\ \A i \in (e + 1)..Len(trace) :
                   \/ trace[i].op = "write" /\ trace[i].data = PromptLit
                   \/ trace[i].op = "flush"
                   \/ trace[i].op = "read" /\ trace[i].data = <<>>
             /\ pc = "err" =>
                   /\ trace[Len(trace)].err # "none"
                   /\ ret = Err("run", trace[Len(trace)].err))
    /\ (FirstEof(trace, 1) > 0 /\ Running)
          ~> (pc = "err" \/ PromptWrites(trace) = MaxIter)

\* the input was empty: run wrote three prompts, met the end of the input
\* after each of the first two, and called no handler
C22_Witness ==
    /\ FirstEof(trace, 1) > 0
    /\ stdout = <<"(", "c", "m", "d", ")", " ", "(", "c", "m", "d", ")", " ", "(", "c", "m", "d", ")", " ">>
    /\ CountOp(trace, "read") = 2
    /\ CountOp(trace, "exec") = 0
    /\ Running

(***************************************************************************)
(* The call of the handler of a registered command.                        *)
(***************************************************************************)
\* the tokens of a line as it was read: its maximal runs of characters
\* other than space and tab, the line end left out
LineTokens(line) ==
    MaximalRuns(IF line # <<>> /\ line[Len(line)] = "\n"
                THEN SubSeq(line, 1, Len(line) - 1)
                ELSE line)

\* the entries of t after entry i and before the next read
RECURSIVE NextRead(_, _)
NextRead(t, i) ==
    IF i > Len(t) THEN Len(t) + 1
    ELSE IF t[i].op = "read" THEN i
    ELSE NextRead(t, i + 1)

\* entry i of trace is the read of a line whose command is registered, and
\* the iteration has gone on to the line's dispatch
RegisteredLineAt(i) ==
    /\ trace[i].op = "read"
    /\ trace[i].err = "none"
    /\ LineTokens(trace[i].data) # <<>>
    /\ Head(LineTokens(trace[i].data)) \in DOMAIN handles
    /\ i < Len(trace) \/ pc # "dispatch"

\* after entry i of trace the handler h is called once, with args, and no
\* other handler is called before the next line is read
CalledOnceWith(i, h, args) ==
    /\ i < Len(trace)
    /\ trace[i + 1].op = "exec"
    /\ trace[i + 1].h = h
    /\ trace[i + 1].args = args
    /\ \A j \in (i + 2)..(NextRead(trace, i + 1) - 1) : trace[j].op # "exec"

\* C23: for each line read whose command (its first token) is registered,
\* run calls that command's handler exactly once, with the tokens that
\* follow the command on the line, in their order, and calls no other
\* handler for that line.
C23_HandlerCalledOnceWithArgs ==
    \A i \in 1..Len(trace) :
       RegisteredLineAt(i)
          => CalledOnceWith(i, handles[Head(LineTokens(trace[i].data))],
                            Tail(LineTokens(trace[i].data)))

\* the same for the lines whose command is followed by a space or by the
\* line end
C23_SpaceAfterCommand ==
    \A i \in 1..Len(trace) :
       (/\ RegisteredLineAt(i)
        /\ Len(trace[i].data) > Len(Head(LineTokens(trace[i].data)))
        /\ trace[i].data[Len(Head(LineTokens(trace[i].data))) + 1] # "\t")
          => CalledOnceWith(i, handles[Head(LineTokens(trace[i].data))],
                            Tail(LineTokens(trace[i].data)))

(***************************************************************************)
(* The names of the registry.                                              *)
(***************************************************************************)
\* C24: every key of the registry is a non-empty token without whitespace,
\* whatever add_cmd and add_cmd_fn calls were made.
C24_KeysAreTokens ==
    \A k \in DOMAIN handles :
       /\ k # <<>>
       /\ \A i \in 1..Len(k) : ~IsWhitespace(k[i])

\* a handler registered under a name that is empty or holds whitespace is
\* never called by run
C24_BadKeyNeverCalled ==
    \A i \in 1..Len(trace) :
       trace[i].op = "exec"
          => \E k \in DOMAIN first :
                /\ first[k] = trace[i].h
                /\ k # <<>>
                /\ \A j \in 1..Len(k) : ~IsWhitespace(k[j])

(***************************************************************************)
(* The registry while run is executing.                                    *)
(***************************************************************************)
\* C25: run never modifies the registry: no step taken by run, from its
\* call to its return or its failure, changes the set of registered names
\* or the handler bound to a name.
C25_RunKeepsRegistry ==
    [][(pc # "idle" \/ pc' # "idle") => handles' = handles]_vars

\* run called Greeting and then Quit and returned Ok; the registry holds
\* greet and quit as they were registered
C25_Witness ==
    /\ pc = "done"
    /\ ret = Ok("run")
    /\ handles = Insert(Insert(<<>>, greet, "Greeting"), quit, "Quit")
    /\ handles = first
    /\ CountOp(trace, "exec") = 2

(***************************************************************************)
(* The tokenizer applied to its own result.                                *)
(***************************************************************************)
\* C26: the tokenizer is idempotent on normalized input: for every line,
\* the command and the args of the line, joined with single spaces and
\* tokenized again, come out as the same command and the same args.
C26_TokenizerIdempotent ==
    [][pc = "tokenized" => parsed' = parsed]_vars

\* the line "  cmd   a   b  " gave cmd and [a, b], and so did "cmd a b",
\* the line made of them
C26_Witness ==
    /\ pc = "retokenized"
    /\ inputs = <<" ", " ", "c", "m", "d", " ", " ", " ", "a", " ", " ", " ", "b", " ", " ">>
    /\ parsed = <<<<"c", "m", "d">>, << <<"a">>, <<"b">> >> >>

====
